---- MODULE Spec2Model ----
(***************************************************************************)
(* Model of boid_art.py: the flocking simulation's frame loop (events,     *)
(* black hole, flock/update/edges per boid) and generate_palette.          *)
(*                                                                         *)
(* Arithmetic.  The program computes in float64.  The model computes in    *)
(* fixed point: a length is an integer number of 1/Scale pixels, sums and  *)
(* differences are exact, and every product with a fractional factor and   *)
(* every division is rounded to the nearest unit (ties away from zero),    *)
(* as the float operations round to the nearest representable value.       *)
(* Distances are compared through their squares, which is exact.           *)
(***************************************************************************)
EXTENDS Integers, Sequences, FiniteSets, TLC

(* ------------------------------ bounds -------------------------------- *)
\* boids in the list (NUM_BOIDS is 250 in the program)
NumBoids == 3
\* ticks of the main loop that are explored
MaxFrames == 2
\* fixed-point units per pixel
Scale == 4
\* palette inputs explored by PaletteSpec
MaxTypes == 8
MaxGradation == 4

(* ------------------------ program constants --------------------------- *)
SCREEN_WIDTH == 1920
SCREEN_HEIGHT == 1080
NUM_TYPES == 7
GRADATION_LEVELS == 10
BOID_SPEED == 8
PERCEPTION_RADIUS == 250
SEPARATION_RADIUS == 50
AVOIDANCE_RADIUS == 120
\* TURNING_FACTOR = 0.5, in percent
TURNING_FACTOR_PCT == 50
BODY_SIZE_MIN == 10
BODY_SIZE_MAX == 12
BODY_SIZE_FACTOR == 2
BLACK_HOLE_RADIUS == 50
BLACK_HOLE_SPEED == 10
\* the factors of flock(): 0.02, 0.05, 0.3 and 0.05, in percent
COHESION_PCT == 2
ALIGNMENT_PCT == 5
SEPARATION_PCT == 30
AVOIDANCE_PCT == 5
\* the blend weight 0.3 of generate_palette, in percent
BLEND_PCT == 30
WHITE == 255

Boids == 1..NumBoids

(* --------------------------- vectors ---------------------------------- *)
Zero == <<0, 0>>
VAdd(a, b) == <<a[1] + b[1], a[2] + b[2]>>
VSub(a, b) == <<a[1] - b[1], a[2] - b[2]>>
VNeg(a) == <<0 - a[1], 0 - a[2]>>
Norm2(a) == a[1] * a[1] + a[2] * a[2]
Abs(x) == IF x < 0 THEN 0 - x ELSE x
Sgn(x) == IF x < 0 THEN 0 - 1 ELSE IF x > 0 THEN 1 ELSE 0

\* a / b rounded to the nearest integer, ties away from zero (b > 0)
RoundDiv(a, b) == Sgn(a) * ((2 * Abs(a) + b) \div (2 * b))
\* v * num / den, one rounding per component
VMulDiv(v, num, den) == <<RoundDiv(v[1] * num, den), RoundDiv(v[2] * num, den)>>

\* a length in pixels, in fixed-point units
Px(n) == n * Scale
Pt(x, y) == <<Px(x), Px(y)>>

\* np.linalg.norm(a - b) < r, r in pixels
Within(a, b, r) == Norm2(VSub(a, b)) < Px(r) * Px(r)

\* |c| * m / sqrt(n) rounded to the nearest unit: the largest k with
\* k - 1/2 <= |c| * m / sqrt(n), where 0 < c * c <= n
RoundOverNorm(c, n, m) ==
  LET ks == {k \in 1..m : (2 * k - 1) * (2 * k - 1) * n <= 4 * c * c * m * m}
  IN  IF ks = {} THEN 0 ELSE CHOOSE k \in ks : \A j \in ks : j <= k

\* (v / |v|) * m, each component rounded to the nearest unit (v # Zero)
Rescale(v, m) ==
  <<Sgn(v[1]) * RoundOverNorm(v[1], Norm2(v), m),
    Sgn(v[2]) * RoundOverNorm(v[2], Norm2(v), m)>>

RECURSIVE VSum(_, _)
VSum(F, S) ==
  IF S = {} THEN Zero
  ELSE LET o == CHOOSE o \in S : TRUE IN VAdd(F[o], VSum(F, S \ {o}))

(* ------------------------- body sizes --------------------------------- *)
\* np.linspace(min, max, factor, dtype=int): evenly spaced, truncated
generate_body_sizes(min_size, max_size, factor) ==
  IF factor = 1 THEN <<min_size>>
  ELSE [i \in 1..factor |->
          min_size + ((i - 1) * (max_size - min_size)) \div (factor - 1)]

BODY_SIZES == generate_body_sizes(BODY_SIZE_MIN, BODY_SIZE_MAX, BODY_SIZE_FACTOR)
SizeSet == {BODY_SIZES[i] : i \in 1..Len(BODY_SIZES)}
MinSize == CHOOSE s \in SizeSet : \A t \in SizeSet : s <= t
MaxSize == CHOOSE s \in SizeSet : \A t \in SizeSet : t <= s
\* attractiveness = AttrNum(size) / AttrDen
AttrNum(sz) == sz - MinSize
AttrDen == MaxSize - MinSize + 1

VARIABLES
  running,              \* the loop flag
  black_hole_active,    \* the zone's toggle
  black_hole_position,  \* the zone's centre
  position,             \* boid -> position
  velocity,             \* boid -> velocity
  acceleration,         \* boid -> acceleration
  color_index,          \* boid -> palette index; type = color_index // GRADATION_LEVELS
  size,                 \* boid -> body size
  pc,                   \* where the main loop stands
  cur,                  \* index of the boid the flock loop is at
  frame,                \* completed ticks
  seenPos,              \* positions when this tick's flock loop started
  seenVel,              \* velocities when this tick's flock loop started
  relocated,            \* boids the black hole moved in this tick
  separation,           \* boid -> the separation vector its last flock() computed
  pal_n, pal_g,         \* generate_palette's arguments
  pal_t, pal_i,         \* its loop indices (type, gradation)
  all_colors,           \* its result list
  pal_pc                \* "run", "done" or "ZeroDivisionError"

simVars == <<running, black_hole_active, black_hole_position, position, velocity,
             acceleration, color_index, size, pc, cur, frame, seenPos, seenVel,
             relocated, separation>>
palVars == <<pal_n, pal_g, pal_t, pal_i, all_colors, pal_pc>>
vars == <<simVars, palVars>>

Type(b) == color_index[b] \div GRADATION_LEVELS
MaxSpeed == Px(BOID_SPEED)

(* --------------------------- Boid methods ----------------------------- *)
\* apply_force: acceleration += force * TURNING_FACTOR * (0.5 + attractiveness)
\* 0.5 + a/d = (d + 2a) / (2d)
ApplyForce(self, acc, force) ==
  VAdd(acc, VMulDiv(force, TURNING_FACTOR_PCT * (AttrDen + 2 * AttrNum(size[self])),
                    100 * 2 * AttrDen))

\* flock(): one scan of the list with the positions and velocities given;
\* the new acceleration of self and the separation vector it computed
Flock(self, pos, vel, acc) ==
  LET others == Boids \ {self}
      mates == {o \in others : Type(o) = Type(self)
                               /\ Within(pos[self], pos[o], PERCEPTION_RADIUS)}
      crowd == {o \in mates : Within(pos[self], pos[o], SEPARATION_RADIUS)}
      strangers == {o \in others : Type(o) # Type(self)
                                   /\ Within(pos[self], pos[o], AVOIDANCE_RADIUS)}
      total == Cardinality(mates)
      avg_position == VMulDiv(VSum(pos, mates), 1, total)
      avg_velocity == VMulDiv(VSum(vel, mates), 1, total)
      separation_force == VSum([o \in Boids |-> VSub(pos[self], pos[o])], crowd)
      avoidance == VSum([o \in Boids |->
                           VMulDiv(VSub(pos[self], pos[o]), AVOIDANCE_PCT, 100)],
                        strangers)
      cohesion == IF total > 0
                  THEN VMulDiv(VSub(avg_position, pos[self]), COHESION_PCT, 100)
                  ELSE Zero
      alignment == IF total > 0
                   THEN VMulDiv(VSub(avg_velocity, vel[self]), ALIGNMENT_PCT, 100)
                   ELSE Zero
      sep == IF crowd # {} THEN VMulDiv(separation_force, SEPARATION_PCT, 100)
             ELSE Zero
      acc1 == IF strangers # {} THEN ApplyForce(self, acc, avoidance) ELSE acc
  IN  [acceleration |-> ApplyForce(self, acc1, VAdd(VAdd(alignment, cohesion), sep)),
       separation |-> sep]

\* update() without the speed test
UpdateNoClamp(p, v, a) ==
  [velocity |-> VAdd(v, a), position |-> VAdd(p, VAdd(v, a)), acceleration |-> Zero]

\* update() without the reset of the acceleration
UpdateKeepAcc(p, v, a) ==
  LET v1 == VAdd(v, a)
      v2 == IF Norm2(v1) > MaxSpeed * MaxSpeed THEN Rescale(v1, MaxSpeed) ELSE v1
  IN  [velocity |-> v2, position |-> VAdd(p, v2), acceleration |-> a]

\* update(): the new velocity, position and acceleration of one boid
Update(p, v, a) ==
  LET v1 == VAdd(v, a)
      v2 == IF Norm2(v1) > MaxSpeed * MaxSpeed THEN Rescale(v1, MaxSpeed) ELSE v1
  IN  [velocity |-> v2, position |-> VAdd(p, v2), acceleration |-> Zero]

\* edges() without the tests against 0
WrapNoLower(x, limit) == IF x > limit THEN 0 ELSE x

\* edges(): the two tests of each coordinate, in the order of the code
Wrap(x, limit) ==
  LET x1 == IF x > limit THEN 0 ELSE x
  IN  IF x1 < 0 THEN limit ELSE x1
Edges(p) == <<Wrap(p[1], Px(SCREEN_WIDTH)), Wrap(p[2], Px(SCREEN_HEIGHT))>>

(* ------------------------- inputs and startup ------------------------- *)
\* headings drawn for the initial velocity (cos a, sin a) * BOID_SPEED
Headings == << <<1, 0>>, <<0 - 1, 0>>, <<1, 1>>, <<0, 0 - 1>>, <<0 - 3, 0 - 4>> >>
\* points drawn by random.randint for the initial positions
Spots == << <<960, 540>>, <<990, 540>>, <<1916, 1078>>, <<2, 3>>,
            <<1000, 600>>, <<1030, 600>>, <<1000, 680>>, <<400, 300>> >>
\* a boid as constructed: spot, heading, color_index, index into BODY_SIZES
Recruit(s, h, c, z) == [spot |-> s, heading |-> h, color |-> c, body |-> z]
\* the populations the runs start from; boid b is entry b (cyclically)
Populations ==
  << <<Recruit(5, 1, 0, 1), Recruit(6, 2, 9, 1), Recruit(8, 3, 3, 2), Recruit(3, 3, 12, 1)>>,
     <<Recruit(1, 1, 0, 1), Recruit(2, 3, 1, 2), Recruit(7, 4, 10, 1), Recruit(4, 2, 5, 2)>>,
     <<Recruit(3, 3, 20, 2), Recruit(4, 2, 20, 1), Recruit(4, 4, 35, 1), Recruit(5, 5, 0, 2)>>,
     <<Recruit(5, 5, 10, 2), Recruit(6, 1, 25, 1), Recruit(7, 3, 11, 2), Recruit(1, 4, 69, 1)>>,
     <<Recruit(5, 3, 0, 2), Recruit(6, 3, 0, 2), Recruit(8, 1, 0, 1), Recruit(2, 2, 40, 1)>> >>
RecruitOf(pop, b) == Populations[pop][((b - 1) % Len(Populations[pop])) + 1]

\* what pygame.event.get() may return in one tick
EventLists == { <<>>, <<"QUIT">>, <<"SPACE">>, <<"SPACE", "SPACE">>,
                <<"SPACE", "QUIT">>, <<"OTHER">> }
\* what pygame.key.get_pressed() may report
KeySets == SUBSET {"LEFT", "RIGHT", "UP", "DOWN"}
\* points random.randint may draw for a relocated boid
RelocTargets == { Pt(0, SCREEN_HEIGHT), Pt(1010, 590) }

Count(seq, e) == Cardinality({k \in 1..Len(seq) : seq[k] = e})

SimInit ==
  /\ running = TRUE
  /\ black_hole_active = TRUE
  /\ black_hole_position = Pt(SCREEN_WIDTH \div 2, SCREEN_HEIGHT \div 2)
  /\ \E pop \in 1..Len(Populations) :
       /\ position = [b \in Boids |->
            Pt(Spots[RecruitOf(pop, b).spot][1], Spots[RecruitOf(pop, b).spot][2])]
       /\ velocity = [b \in Boids |->
            Rescale(Headings[RecruitOf(pop, b).heading], MaxSpeed)]
       /\ color_index = [b \in Boids |-> RecruitOf(pop, b).color]
       /\ \A b \in Boids : color_index[b] \in 0..(NUM_TYPES * GRADATION_LEVELS - 1)
       /\ size = [b \in Boids |-> BODY_SIZES[RecruitOf(pop, b).body]]
  /\ acceleration = [b \in Boids |-> Zero]
  /\ pc = "events"
  /\ cur = 1
  /\ frame = 0
  /\ seenPos = position
  /\ seenVel = velocity
  /\ relocated = {}
  /\ separation = [b \in Boids |-> Zero]

(* --------------------------- the main loop ---------------------------- *)
\* the event loop of one tick: QUIT clears running, SPACE toggles the zone
RunningAfter(evs, run) == run /\ Count(evs, "QUIT") = 0
ActiveAfter(evs, active) ==
  IF Count(evs, "SPACE") % 2 = 1 THEN ~active ELSE active

\* the four key tests of one tick
ZoneAfter(keys, zone) ==
  <<zone[1] - (IF "LEFT" \in keys THEN Px(BLACK_HOLE_SPEED) ELSE 0)
            + (IF "RIGHT" \in keys THEN Px(BLACK_HOLE_SPEED) ELSE 0),
    zone[2] - (IF "UP" \in keys THEN Px(BLACK_HOLE_SPEED) ELSE 0)
            + (IF "DOWN" \in keys THEN Px(BLACK_HOLE_SPEED) ELSE 0)>>

\* the black hole's test without `if black_hole_active`
TrappedIgnoringToggle(p, active, zone) == Within(p, zone, BLACK_HOLE_RADIUS)

\* the black hole's test of one boid
Trapped(p, active, zone) == active /\ Within(p, zone, BLACK_HOLE_RADIUS)

Events ==
  /\ pc = "events"
  /\ frame < MaxFrames
  /\ \E evs \in EventLists :
       /\ running' = RunningAfter(evs, running)
       /\ black_hole_active' = ActiveAfter(evs, black_hole_active)
  /\ pc' = "keys"
  /\ UNCHANGED <<black_hole_position, position, velocity, acceleration, color_index,
                 size, cur, frame, seenPos, seenVel, relocated, separation>>

Keys ==
  /\ pc = "keys"
  /\ \E keys \in KeySets :
       black_hole_position' = ZoneAfter(keys, black_hole_position)
  /\ pc' = "blackhole"
  /\ UNCHANGED <<running, black_hole_active, position, velocity, acceleration,
                 color_index, size, cur, frame, seenPos, seenVel, relocated, separation>>

BlackHole ==
  /\ pc = "blackhole"
  /\ \E target \in [Boids -> RelocTargets] :
       position' = [b \in Boids |->
                      IF Trapped(position[b], black_hole_active, black_hole_position)
                      THEN target[b] ELSE position[b]]
  /\ relocated' = {b \in Boids :
                     Trapped(position[b], black_hole_active, black_hole_position)}
  /\ seenPos' = position'
  /\ seenVel' = velocity
  /\ cur' = 1
  /\ pc' = "flock"
  /\ UNCHANGED <<running, black_hole_active, black_hole_position, velocity,
                 acceleration, color_index, size, frame, separation>>

FlockStep ==
  /\ pc = "flock"
  /\ LET r == Flock(cur, position, velocity, acceleration[cur])
     IN  /\ acceleration' = [acceleration EXCEPT ![cur] = r.acceleration]
         /\ separation' = [separation EXCEPT ![cur] = r.separation]
  /\ pc' = "update"
  /\ UNCHANGED <<running, black_hole_active, black_hole_position, position, velocity,
                 color_index, size, cur, frame, seenPos, seenVel, relocated>>

UpdateStep ==
  /\ pc = "update"
  /\ LET r == Update(position[cur], velocity[cur], acceleration[cur])
     IN  /\ velocity' = [velocity EXCEPT ![cur] = r.velocity]
         /\ position' = [position EXCEPT ![cur] = r.position]
         /\ acceleration' = [acceleration EXCEPT ![cur] = r.acceleration]
  /\ pc' = "edges"
  /\ UNCHANGED <<running, black_hole_active, black_hole_position, color_index, size,
                 cur, frame, seenPos, seenVel, relocated, separation>>

\* edges() and draw() of the current boid, then the next boid or the end of the loop
EdgesStep ==
  /\ pc = "edges"
  /\ position' = [position EXCEPT ![cur] = Edges(position[cur])]
  /\ IF cur < NumBoids
     THEN cur' = cur + 1 /\ pc' = "flock"
     ELSE cur' = cur /\ pc' = "flip"
  /\ UNCHANGED <<running, black_hole_active, black_hole_position, velocity,
                 acceleration, color_index, size, frame, seenPos, seenVel, relocated,
                 separation>>

\* the end of a tick with `while True`
FlipAlways ==
  /\ pc = "flip"
  /\ frame' = frame + 1
  /\ pc' = "events"
  /\ UNCHANGED <<running, black_hole_active, black_hole_position, position, velocity,
                 acceleration, color_index, size, cur, seenPos, seenVel, relocated,
                 separation>>

\* display.flip(), clock.tick() and the test of `while running`
Flip ==
  /\ pc = "flip"
  /\ frame' = frame + 1
  /\ pc' = IF running THEN "events" ELSE "stopped"
  /\ UNCHANGED <<running, black_hole_active, black_hole_position, position, velocity,
                 acceleration, color_index, size, cur, seenPos, seenVel, relocated,
                 separation>>

(* -------------------------- generate_palette -------------------------- *)
base_colors == << <<200, 50, 50>>, <<50, 200, 50>>, <<50, 50, 200>>,
                  <<200, 200, 50>>, <<200, 50, 200>>, <<50, 200, 200>> >>
\* selected_colors[t], t counted from 0; colour components in fixed-point units
BaseColor(t) == [c \in 1..3 |-> Px(base_colors[(t % Len(base_colors)) + 1][c])]
\* color + (255 - color) * (i / (g - 1)) * 0.3, for g # 1
Shade(color, i, g) ==
  [c \in 1..3 |-> color[c] + RoundDiv((Px(WHITE) - color[c]) * i * BLEND_PCT,
                                      (g - 1) * 100)]

\* one pass of the inner loop body, or the return when the loops are over
PaletteStep ==
  /\ pal_pc = "run"
  /\ IF pal_t >= pal_n \/ pal_g <= 0
     THEN /\ pal_pc' = "done"
          /\ UNCHANGED <<pal_t, pal_i, all_colors>>
     ELSE IF pal_g - 1 = 0
     THEN /\ pal_pc' = "ZeroDivisionError"
          /\ UNCHANGED <<pal_t, pal_i, all_colors>>
     ELSE /\ all_colors' = Append(all_colors, Shade(BaseColor(pal_t), pal_i, pal_g))
          /\ IF pal_i + 1 < pal_g
             THEN pal_i' = pal_i + 1 /\ pal_t' = pal_t
             ELSE pal_i' = 0 /\ pal_t' = pal_t + 1
          /\ pal_pc' = "run"
  /\ UNCHANGED <<pal_n, pal_g>>

\* the palette of the run is built at startup, before the loop
PalIdle ==
  /\ pal_n = 0 /\ pal_g = 1 /\ pal_t = 0 /\ pal_i = 0
  /\ all_colors = <<>> /\ pal_pc = "done"

PalInit ==
  /\ pal_n \in 0..MaxTypes
  /\ pal_g \in 1..MaxGradation
  /\ pal_t = 0 /\ pal_i = 0
  /\ all_colors = <<>>
  /\ pal_pc = "run"

Init == SimInit /\ PalIdle

Next ==
  \/ Events /\ UNCHANGED palVars
  \/ Keys /\ UNCHANGED palVars
  \/ BlackHole /\ UNCHANGED palVars
  \/ FlockStep /\ UNCHANGED palVars
  \/ UpdateStep /\ UNCHANGED palVars
  \/ EdgesStep /\ UNCHANGED palVars
  \/ Flip /\ UNCHANGED palVars

Spec == Init /\ [][Next]_vars

\* the loop is the only thread and nothing in it blocks: it keeps taking steps
\* until it has stopped (or the explored ticks are used up)
FairSpec ==
  /\ Spec
  /\ \/ []<><<Next>>_vars
     \/ <>[](pc = "stopped" \/ (pc = "events" /\ frame >= MaxFrames))

PaletteNext == PaletteStep /\ UNCHANGED simVars

PaletteInit == SimInit /\ PalInit

PaletteSpec == PaletteInit /\ [][PaletteNext]_vars

(* ------------------- the loop body as a function ---------------------- *)
\* the orders the list `boids` can have
Orders == {ord \in [Boids -> Boids] : \A a, b \in Boids : ord[a] = ord[b] => a = b}
Identity == [b \in Boids |-> b]

\* flock(), update() and edges() of one boid, on the state st of all boids
BoidPass(self, st) ==
  LET f == Flock(self, st.position, st.velocity, st.acceleration[self])
      u == Update(st.position[self], st.velocity[self], f.acceleration)
  IN  [position |-> [st.position EXCEPT ![self] = Edges(u.position)],
       velocity |-> [st.velocity EXCEPT ![self] = u.velocity],
       acceleration |-> [st.acceleration EXCEPT ![self] = u.acceleration]]

\* `for boid in boids`, from the k-th boid of the list on, with the list in order ord
RECURSIVE FrameFrom(_, _, _)
FrameFrom(ord, k, st) ==
  IF k > NumBoids THEN st ELSE FrameFrom(ord, k + 1, BoidPass(ord[k], st))

Here == [position |-> position, velocity |-> velocity, acceleration |-> acceleration]

InRect(p) ==
  /\ 0 <= p[1] /\ p[1] <= Px(SCREEN_WIDTH)
  /\ 0 <= p[2] /\ p[2] <= Px(SCREEN_HEIGHT)

\* o is in the range in which self's flock() counts it
Neighbour(self, o, pos) ==
  IF Type(o) = Type(self) THEN Within(pos[self], pos[o], PERCEPTION_RADIUS)
  ELSE Within(pos[self], pos[o], AVOIDANCE_RADIUS)

(* ------------------------------ claims -------------------------------- *)

\* C1: whenever a boid's flock() runs, every other boid's position and velocity
\* are the ones it had when this tick's boid loop began (the previous tick's
\* result plus this tick's relocation).
C1_FlockReadsSnapshot ==
  pc = "flock" =>
    \A j \in Boids \ {cur} : position[j] = seenPos[j] /\ velocity[j] = seenVel[j]

\* C2: with no relocation in the tick, the positions and velocities at the end of
\* the boid loop are the same for every order of the list.
C2_OrderIndependent ==
  (pc = "flock" /\ cur = 1 /\ relocated = {}) =>
    \A ord \in Orders : FrameFrom(ord, 1, Here) = FrameFrom(Identity, 1, Here)

\* C3: every boid is inside [0, width] x [0, height] whenever it is read: always,
\* except between its own update() and its own edges().
C3_InBounds ==
  \A b \in Boids : (pc = "edges" /\ b = cur) \/ InRect(position[b])

\* C3 witness: a boid that left over the right edge was put back at x = 0.
C3_Wrapped ==
  /\ pc = "flock"
  /\ \E b \in Boids : /\ b < cur
                      /\ b \notin relocated
                      /\ position[b][1] = 0
                      /\ velocity[b][1] > 0

\* C4 as claimed: after update() the speed is at most max_speed.
C4_SpeedAtMostMax ==
  pc = "edges" => Norm2(velocity[cur]) <= MaxSpeed * MaxSpeed

\* the speed bound with the rounding allowance: one fixed-point unit
SpeedBound(v) == Norm2(v) <= (MaxSpeed + 1) * (MaxSpeed + 1)

\* C4 as amended: every boid starts with speed at most max_speed + eps, and
\* update() leaves velocity + acceleration as it is when that is at most
\* max_speed, and otherwise replaces it by a vector of length max_speed up to
\* eps, pointing the same way up to rounding; so the speed is at most
\* max_speed + eps in every state (eps: one unit of the arithmetic).
C4_SpeedClamp ==
  /\ \A b \in Boids : SpeedBound(velocity[b])
  /\ [][ /\ \A b \in Boids : SpeedBound(velocity'[b])
         /\ pc = "update" =>
              LET s == VAdd(velocity[cur], acceleration[cur])
                  v == velocity'[cur]
                  cross == v[1] * s[2] - v[2] * s[1]
              IN  IF Norm2(s) <= MaxSpeed * MaxSpeed
                  THEN v = s
                  ELSE /\ Norm2(v) >= (MaxSpeed - 1) * (MaxSpeed - 1)
                       /\ v[1] * s[1] >= 0 /\ v[2] * s[2] >= 0
                       /\ 2 * cross * cross <= Norm2(s)
     ]_vars

\* C4 witness: the first boid's flock() pushed it over max_speed and update()
\* rescaled its velocity.
C4_Clamped ==
  /\ pc = "edges" /\ cur = 1
  /\ LET s == VAdd(seenVel[1], Flock(1, seenPos, seenVel, Zero).acceleration)
     IN  /\ s # seenVel[1]
         /\ Norm2(s) > MaxSpeed * MaxSpeed
         /\ velocity[1] = Rescale(s, MaxSpeed)
         /\ velocity[1] # s

\* C5: a boid's acceleration is zero when its flock() begins; indeed every
\* acceleration is zero except the current boid's between its flock() and update().
C5_AccelerationZero ==
  \A b \in Boids : (pc = "update" /\ b = cur) \/ acceleration[b] = Zero

\* C5 witness: a boid whose last flock() accumulated a force starts its next
\* flock() in a later tick.
C5_FlockAgain ==
  /\ pc = "flock" /\ frame >= 1
  /\ separation[cur] # Zero
  /\ acceleration[cur] = Zero

\* C6: the relocation step moves only boids closer than the radius to the centre
\* of an active zone, puts them inside the screen rectangle, and changes nothing
\* else of any boid.
C6_RelocationEffect ==
  [][pc = "blackhole" =>
       /\ DOMAIN position' = DOMAIN position
       /\ \A b \in Boids :
            /\ position'[b] # position[b] =>
                 /\ black_hole_active
                 /\ Within(position[b], black_hole_position, BLACK_HOLE_RADIUS)
            /\ b \in relocated' <=>
                 /\ black_hole_active
                 /\ Within(position[b], black_hole_position, BLACK_HOLE_RADIUS)
            /\ b \in relocated' => InRect(position'[b])
       /\ ~black_hole_active => position' = position
       /\ UNCHANGED <<velocity, acceleration, color_index, size>>
  ]_vars

\* C6 witness: the step has moved one boid and left another where it was.
C6_SomeRelocated ==
  /\ pc = "flock" /\ cur = 1
  /\ relocated # {} /\ relocated # Boids
  /\ \E b \in relocated : ~Within(position[b], black_hole_position, BLACK_HOLE_RADIUS)

\* C7: in a tick the events come first, then the keys, then the relocation test
\* (on the zone as the events and keys left it), then the boid loop; and every
\* flock() of the tick reads each relocated boid at the position it was moved to.
C7_RelocatedSeenWhereMoved ==
  [][ /\ pc' = "keys" => pc = "events"
      /\ pc' = "blackhole" => pc = "keys"
      /\ pc = "blackhole" => pc' = "flock" /\ cur' = 1
      /\ pc = "blackhole" =>
           relocated' = {b \in Boids :
                           black_hole_active
                           /\ Within(position[b], black_hole_position, BLACK_HOLE_RADIUS)}
      /\ pc \notin {"events", "keys"} =>
           UNCHANGED <<black_hole_position, black_hole_active>>
      /\ pc' = "flock" =>
           \A j \in relocated' \ {cur'} : position'[j] = seenPos'[j]
  ]_vars

\* the order of a tick alone (C7 without its last part)
TickOrder ==
  [][ /\ pc' = "keys" => pc = "events"
      /\ pc' = "blackhole" => pc = "keys"
      /\ pc = "blackhole" => pc' = "flock" /\ cur' = 1
      /\ pc \notin {"events", "keys"} =>
           UNCHANGED <<black_hole_position, black_hole_active>>
  ]_vars

\* steps the loop still takes in the current tick before the test of `while running`
TickRest ==
  CASE pc = "events" -> 3 * NumBoids + 4
    [] pc = "keys" -> 3 * NumBoids + 3
    [] pc = "blackhole" -> 3 * NumBoids + 2
    [] pc = "flock" -> 3 * (NumBoids - cur) + 4
    [] pc = "update" -> 3 * (NumBoids - cur) + 3
    [] pc = "edges" -> 3 * (NumBoids - cur) + 2
    [] pc = "flip" -> 1
    [] OTHER -> 0

\* C8: the loop leaves Running only after a QUIT was consumed, at the end of
\* that tick, every step after the QUIT bringing the exit nearer; once Stopped
\* nothing changes any more; a loop that is still running goes on to the next
\* tick; and a consumed QUIT leads to Stopped.
C8_StoppedIsTerminal ==
  /\ [][ /\ pc = "stopped" => UNCHANGED simVars
         /\ (pc' = "stopped" /\ pc # "stopped") => (pc = "flip" /\ ~running)
         /\ (running /\ ~running') => pc = "events"
         /\ ~running => ~running'
         /\ pc = "flip" => pc' = (IF running THEN "events" ELSE "stopped")
         /\ ~running => TickRest' < TickRest
     ]_vars
  /\ (~running ~> pc = "stopped")

\* C8 witness: the loop has stopped after ticks in which boids moved.
C8_Stopped ==
  /\ pc = "stopped" /\ ~running /\ frame >= 1
  /\ position # seenPos

\* the colours of band t in the list cs, for g levels
BandStart(cs, t, g) == cs[t * g + 1]

\* C9: generate_palette never raises; with one level it returns just the base
\* hue of every type, and with two or more levels the first colour of every
\* band is the base hue of its type.
C9_PaletteBaseHue ==
  /\ pal_pc # "ZeroDivisionError"
  /\ pal_pc = "done" =>
       /\ Len(all_colors) = pal_n * pal_g
       /\ \A t \in 0..(pal_n - 1) : BandStart(all_colors, t, pal_g) = BaseColor(t)

\* C9 without the case of one level: with two or more levels the call returns
\* n * g colours and each band starts with the base hue.
PaletteBandsStartAtBase ==
  (pal_g >= 2 /\ pal_pc = "done") =>
    /\ Len(all_colors) = pal_n * pal_g
    /\ \A t \in 0..(pal_n - 1) : BandStart(all_colors, t, pal_g) = BaseColor(t)

\* C10: at the end of the boid loop, two boids of one type that are within
\* separation range of each other, with no other boid in range of either, (at
\* the start of the loop and at its end) have got opposite separation vectors,
\* each 0.3 times its position minus the other's at the start of the loop.
C10_SeparationAntisymmetric ==
  pc = "flip" =>
    \A a, b \in Boids :
      ( /\ a # b
        /\ Type(a) = Type(b)
        /\ Within(seenPos[a], seenPos[b], SEPARATION_RADIUS)
        /\ Within(position[a], position[b], SEPARATION_RADIUS)
        /\ \A c \in Boids \ {a, b} :
             /\ ~Neighbour(a, c, seenPos) /\ ~Neighbour(b, c, seenPos)
             /\ ~Neighbour(a, c, position) /\ ~Neighbour(b, c, position) )
      => /\ separation[a] = VNeg(separation[b])
         /\ separation[a] = VMulDiv(VSub(seenPos[a], seenPos[b]), SEPARATION_PCT, 100)
         /\ separation[b] = VMulDiv(VSub(seenPos[b], seenPos[a]), SEPARATION_PCT, 100)

\* the loop of the model is the loop body applied in list order
LoopIsFrame ==
  pc = "flip" =>
    Here = FrameFrom(Identity, 1, [position |-> seenPos, velocity |-> seenVel,
                                   acceleration |-> [b \in Boids |-> Zero]])
====
